---------------------------- MODULE Spec2Model ----------------------------
(***************************************************************************)
(* AnimatedCounter (src/modules/animations/AnimatedCounter.min.mjs).       *)
(*                                                                         *)
(* One counter instance bound to one element, together with the parts of   *)
(* the browser it talks to: the document's scroll listeners, the queue of  *)
(* requestAnimationFrame callbacks, the document timeline and the          *)
(* element's position relative to the viewport.                            *)
(*                                                                         *)
(* Numbers.  A JavaScript number is a record [k, v]: k = "num" with v the  *)
(* value in hundredths (5.25 is Num(525)), k = "nan", "posinf" or          *)
(* "neginf" otherwise.  Directives of the model carry at most two          *)
(* fractional digits, so every value the code computes (a multiple of the  *)
(* increment 1, 0.1 or 0.01) is exact in hundredths; binary floating point *)
(* rounding error is not modelled.  Times are milliseconds.                *)
(*                                                                         *)
(* Strings.  A string the code parses is a tuple of one-character strings. *)
(* A string Intl.NumberFormat produces is a record (see format below).     *)
(***************************************************************************)
EXTENDS Integers, Sequences, FiniteSets, TLC

---------------------------------------------------------------------------
(* Class constants, lines 91-94 *)
ANIM_DISABLED == -1
ANIM_READY == 0
ANIM_ACTIVE == 1
ANIM_COMPLETE == 2

---------------------------------------------------------------------------
(* JavaScript numbers *)

Num(n) == [k |-> "num", v |-> n]
NaN == [k |-> "nan", v |-> 0]
PosInf == [k |-> "posinf", v |-> 0]
NegInf == [k |-> "neginf", v |-> 0]

Undefined == <<"undefined">>

IsNum(x) == x.k = "num"
IsNaN(x) == x.k = "nan"

Abs(n) == IF n < 0 THEN 0 - n ELSE n

(* Math.round of the rational n/d (d # 0): the nearest integer, ties      *)
(* towards +Infinity, that is floor(n/d + 1/2).                            *)
MathRound(n, d) ==
    LET nn == IF d < 0 THEN 0 - n ELSE n
        dd == Abs(d)
    IN  (2 * nn + dd) \div (2 * dd)

(* Rounding of Intl.NumberFormat (roundingMode halfExpand): the nearest    *)
(* integer to n/d (d > 0), ties away from zero.                            *)
RoundHalfExpand(n, d) ==
    IF n >= 0 THEN (2 * n + d) \div (2 * d)
    ELSE 0 - ((2 * (0 - n) + d) \div (2 * d))

(* a > b and a >= b of JavaScript on numbers: false when either is NaN *)
JsGt(a, b) ==
    CASE IsNaN(a) \/ IsNaN(b) -> FALSE
      [] a.k = "posinf" -> b.k # "posinf"
      [] a.k = "neginf" -> FALSE
      [] b.k = "posinf" -> FALSE
      [] b.k = "neginf" -> TRUE
      [] OTHER -> a.v > b.v

JsGe(a, b) ==
    CASE IsNaN(a) \/ IsNaN(b) -> FALSE
      [] OTHER -> (a = b) \/ JsGt(a, b)

---------------------------------------------------------------------------
(* Strings the constructor parses: tuples of one-character strings *)

Digit == {"0", "1", "2", "3", "4", "5", "6", "7", "8", "9"}

DigitVal(c) ==
    CASE c = "0" -> 0 [] c = "1" -> 1 [] c = "2" -> 2 [] c = "3" -> 3
      [] c = "4" -> 4 [] c = "5" -> 5 [] c = "6" -> 6 [] c = "7" -> 7
      [] c = "8" -> 8 [] c = "9" -> 9

(* String.prototype.indexOf for a one-character needle: 0-based, -1 when   *)
(* the character does not occur.                                           *)
indexOf(s, c) ==
    IF \E i \in 1..Len(s) : s[i] = c
    THEN (CHOOSE i \in 1..Len(s) : s[i] = c /\ \A j \in 1..(i - 1) : s[j] # c) - 1
    ELSE -1

(* String.prototype.split(':') *)
RECURSIVE split(_)
split(s) ==
    LET i == indexOf(s, ":")
    IN  IF i = -1 THEN <<s>>
        ELSE <<SubSeq(s, 1, i)>> \o split(SubSeq(s, i + 2, Len(s)))

(* data[i] of JavaScript (0-based), undefined beyond the end *)
At(data, i) == IF i + 1 <= Len(data) THEN data[i + 1] ELSE Undefined

(* the longest prefix of s made of digits *)
RECURSIVE DigitPrefix(_)
DigitPrefix(s) ==
    IF s # <<>> /\ Head(s) \in Digit
    THEN <<Head(s)>> \o DigitPrefix(Tail(s))
    ELSE <<>>

RECURSIVE DigitsValue(_)
DigitsValue(ds) ==
    IF ds = <<>> THEN 0
    ELSE 10 * DigitsValue(SubSeq(ds, 1, Len(ds) - 1)) + DigitVal(ds[Len(ds)])

(* the first two fractional digits, in hundredths *)
FracHundredths(fs) ==
    (IF Len(fs) >= 1 THEN 10 * DigitVal(fs[1]) ELSE 0)
    + (IF Len(fs) >= 2 THEN DigitVal(fs[2]) ELSE 0)

Signed(neg, n) == IF neg THEN 0 - n ELSE n

(* parseInt(s): optional sign, then the leading digits; NaN without any *)
parseInt(s) ==
    LET neg  == s # <<>> /\ Head(s) = "-"
        body == IF s # <<>> /\ Head(s) \in {"-", "+"} THEN Tail(s) ELSE s
        ds   == DigitPrefix(body)
    IN  IF ds = <<>> THEN NaN ELSE Num(Signed(neg, 100 * DigitsValue(ds)))

(* parseFloat(s): optional sign, digits, optional fraction; NaN when       *)
(* neither part has a digit                                                *)
parseFloat(s) ==
    LET neg  == s # <<>> /\ Head(s) = "-"
        body == IF s # <<>> /\ Head(s) \in {"-", "+"} THEN Tail(s) ELSE s
        ds   == DigitPrefix(body)
        rest == SubSeq(body, Len(ds) + 1, Len(body))
        fs   == IF rest # <<>> /\ Head(rest) = "." THEN DigitPrefix(Tail(rest)) ELSE <<>>
    IN  IF ds = <<>> /\ fs = <<>> THEN NaN
        ELSE Num(Signed(neg, 100 * DigitsValue(ds) + FracHundredths(fs)))

---------------------------------------------------------------------------
(* Intl.NumberFormat *)

(* The format-code table of the constructor's switch (lines 185-247).  The *)
(* three codes written with a non-ASCII character are spelled "EURO",      *)
(* "POUND" and "MICRO" here.                                               *)
FormatCodes ==
    { <<<<"%">>, "percent", "">>,
      <<<<"$">>, "currency", "USD">>, <<<<"EURO">>, "currency", "EUR">>,
      <<<<"POUND">>, "currency", "GBP">>, <<<<"c", "a", "d">>, "currency", "CAD">>,
      <<<<"e", "u", "r">>, "currency", "EUR">>, <<<<"g", "b", "p">>, "currency", "GBP">>,
      <<<<"u", "s", "d">>, "currency", "USD">>,
      <<<<"b">>, "unit", "bit">>, <<<<"B">>, "unit", "byte">>,
      <<<<"c">>, "unit", "celsius">>, <<<<"c", "m">>, "unit", "centimeter">>,
      <<<<"d">>, "unit", "day">>, <<<<"d", "e", "g">>, "unit", "degree">>,
      <<<<"f">>, "unit", "fahrenheit">>, <<<<"f", "o", "z">>, "unit", "fluid-ounce">>,
      <<<<"f", "t">>, "unit", "foot">>, <<<<"g">>, "unit", "gram">>,
      <<<<"g", "a", "l">>, "unit", "gallon">>, <<<<"g", "b">>, "unit", "gigabit">>,
      <<<<"G", "B">>, "unit", "gigabyte">>, <<<<"h">>, "unit", "hour">>,
      <<<<"i", "n">>, "unit", "inch">>, <<<<"k", "b">>, "unit", "kilobit">>,
      <<<<"K", "B">>, "unit", "kilobyte">>, <<<<"k", "g">>, "unit", "kilogram">>,
      <<<<"k", "m">>, "unit", "kilometer">>, <<<<"l">>, "unit", "liter">>,
      <<<<"l", "b">>, "unit", "pound">>, <<<<"m">>, "unit", "meter">>,
      <<<<"m", "b">>, "unit", "megabit">>, <<<<"M", "B">>, "unit", "megabyte">>,
      <<<<"m", "i">>, "unit", "mile">>, <<<<"m", "i", "n">>, "unit", "minute">>,
      <<<<"m", "l">>, "unit", "milliliter">>, <<<<"m", "m">>, "unit", "millimeter">>,
      <<<<"MICRO", "s">>, "unit", "microsecond">>, <<<<"m", "s">>, "unit", "millisecond">>,
      <<<<"n", "s">>, "unit", "nanosecond">>, <<<<"o", "z">>, "unit", "ounce">>,
      <<<<"p", "b">>, "unit", "petabit">>, <<<<"P", "B">>, "unit", "petabyte">>,
      <<<<"p", "c", "t">>, "unit", "percent">>, <<<<"s">>, "unit", "second">>,
      <<<<"t", "b">>, "unit", "terabit">>, <<<<"T", "B">>, "unit", "terabyte">>,
      <<<<"y", "d">>, "unit", "yard">>, <<<<"y", "r">>, "unit", "year">> }

(* the format options the constructor builds, lines 178-247 *)
FormatOptions(code, precision) ==
    IF \E e \in FormatCodes : e[1] = code
    THEN LET e == CHOOSE e \in FormatCodes : e[1] = code
         IN  [style |-> e[2], sub |-> e[3], digits |-> precision]
    ELSE [style |-> "decimal", sub |-> "", digits |-> precision]

NoFormatter == [style |-> "null", sub |-> "", digits |-> 0]

(* new Intl.NumberFormat(...) raises a RangeError when the fraction digits *)
(* are negative (the model has no precision above the engine's maximum)    *)
FormatterThrows(precision) == precision < 0

RECURSIVE Pow10(_)
Pow10(n) == IF n <= 0 THEN 1 ELSE 10 * Pow10(n - 1)

(* formatter.format(x): the string, as the record of what it shows: the    *)
(* style and currency/unit, the number of fraction digits and the number   *)
(* shown, rounded to that many digits (mant, in units of 10^-digits).      *)
(* The percent style shows 100 times the value.                            *)
format(f, x) ==
    [style |-> f.style, sub |-> f.sub, digits |-> f.digits, kind |-> x.k,
     mant |-> IF IsNum(x)
              THEN RoundHalfExpand(
                     (IF f.style = "percent" THEN 100 * x.v ELSE x.v) * Pow10(f.digits),
                     100)
              ELSE 0]

(* the element's text before the counter touches it *)
OriginalText == [style |-> "original", sub |-> "", digits |-> 0, kind |-> "str", mant |-> 0]

(* `current` holding a string (what reset leaves in it) *)
Str(text) == [k |-> "str", v |-> 0, s |-> text]

(* ToNumber of a value the code compares with >=: a number is itself, a    *)
(* formatted string is a number only when it is a bare decimal without     *)
(* grouping separators.                                                    *)
ToNumber(x) ==
    IF x.k # "str" THEN [k |-> x.k, v |-> x.v]
    ELSE IF x.s.style = "decimal" /\ x.s.kind = "num" /\ Abs(x.s.mant) < 1000 * Pow10(x.s.digits)
         THEN Num(RoundHalfExpand(x.s.mant * 100, Pow10(x.s.digits)))
         ELSE NaN

---------------------------------------------------------------------------
(* The counter's methods, as functions of the instance and what it owns.   *)
(* An instance record o holds the fields of the class (lines 96-136) and,  *)
(* with them, the three things outside the object its methods change:      *)
(*   textContent  node.textContent                                         *)
(*   listening    animateOnScroll is a scroll listener of the document     *)
(*   pending      callbacks this instance has passed to                    *)
(*                requestAnimationFrame for the next frame                 *)

(* the field initialisers, lines 96-136 *)
NewObject ==
    [count |-> 0, start |-> Num(0), current |-> Num(0), target |-> Num(0),
     increment |-> 100, limit |-> 0, precision |-> 0, duration |-> Num(1500),
     state |-> ANIM_DISABLED, timestamp |-> 0, formatter |-> NoFormatter,
     textContent |-> OriginalText, listening |-> FALSE, pending |-> 0]

(* inView(), lines 333-343; the viewport is Viewport wide and high *)
Viewport == 100
inView(r) ==
    /\ r.width # 0 /\ r.height # 0
    /\ r.top >= 0 /\ r.left >= 0
    /\ r.bottom <= Viewport /\ r.right <= Viewport

(* steps(), lines 379-382: target - start / increment; NaN when start or   *)
(* target is.  In hundredths, with the increment I in hundredths:          *)
(* T - 100 * (S / I), and I divides 100.                                   *)
steps(o) ==
    IF IsNaN(o.start) \/ IsNaN(o.target) THEN NaN
    ELSE Num(o.target.v - o.start.v * (100 \div o.increment))

(* lines 283-287: Math.round(steps() * (elapsed / duration) / increment)   *)
(* * increment, for elapsed > 0 ms                                         *)
Interpolate(o, elapsed) ==
    LET st == steps(o)
    IN  CASE IsNaN(st) \/ IsNaN(o.duration) -> NaN
          [] o.duration.v = 0 ->
                (* elapsed / 0 is +Infinity; steps * Infinity *)
                IF st.v = 0 THEN NaN ELSE IF st.v > 0 THEN PosInf ELSE NegInf
          [] OTHER ->
                (* (st/100) * (e/dur) / (I/100) = st*e / (dur*I) *)
                Num(MathRound(st.v * elapsed, o.duration.v * o.increment)
                    * o.increment)

(* reset() writing the formatted start value instead of the target *)
reset_writesStart(o) ==
    LET text == format(o.formatter, o.start)
    IN  [o EXCEPT !.timestamp = 0, !.current = Str(text), !.textContent = text,
                  !.state = ANIM_READY]

(* reset() that also forgets the runs already started *)
reset_clearsCount(o) ==
    LET text == format(o.formatter, o.target)
    IN  [o EXCEPT !.timestamp = 0, !.current = Str(text), !.textContent = text,
                  !.state = ANIM_READY, !.count = 0]

(* reset(), lines 366-372 *)
reset(o) ==
    LET text == format(o.formatter, o.target)
    IN  [o EXCEPT !.timestamp = 0, !.current = Str(text), !.textContent = text,
                  !.state = ANIM_READY]

(* animate(timestamp), lines 262-306.  t is the argument: Num(ms), or NaN  *)
(* standing for the undefined of a call without argument (only its         *)
(* difference with this.timestamp is used); clock is                       *)
(* document.timeline.currentTime.                                          *)
(* the guard without its ANIM_DISABLED line *)
animateReturnsEarly_completeOnly(o) == o.state = ANIM_COMPLETE

(* the guard without its ANIM_COMPLETE line *)
animateReturnsEarly_disabledOnly(o) == o.state = ANIM_DISABLED

animateReturnsEarly(o) == o.state = ANIM_DISABLED \/ o.state = ANIM_COMPLETE

(* the set-up branch without its requestAnimationFrame *)
animateStart_noRequest(o, clock) ==
    [o EXCEPT !.current = o.start, !.state = ANIM_ACTIVE, !.timestamp = clock,
              !.count = o.count + 1]

(* the set-up branch without its return: the rest of animate runs on *)
animateStart_fallsThrough(o, clock) ==
    IF JsGe(o.start, o.target)
    THEN [o EXCEPT !.current = o.start, !.state = ANIM_COMPLETE,
                   !.timestamp = clock, !.pending = o.pending + 1,
                   !.count = o.count + 1]
    ELSE [o EXCEPT !.current = o.start, !.state = ANIM_ACTIVE,
                   !.timestamp = clock, !.pending = o.pending + 2,
                   !.count = o.count + 1]

animateStart(o, clock) ==
    [o EXCEPT !.current = o.start, !.state = ANIM_ACTIVE, !.timestamp = clock,
              !.pending = o.pending + 1, !.count = o.count + 1]

(* the clamp left out *)
clampToTarget_none(o, x) == x

clampToTarget(o, x) == IF JsGe(x, o.target) THEN o.target ELSE x

forceAtEnd(o, elapsed, x) == IF JsGt(elapsed, o.duration) THEN o.target ELSE x

animate(o, t, clock) ==
    IF animateReturnsEarly(o) THEN o
    ELSE IF o.state = ANIM_READY THEN animateStart(o, clock)
    ELSE
      LET elapsed == IF IsNum(t) THEN Num(t.v - o.timestamp) ELSE NaN
          stepped == Interpolate(o, elapsed.v)
          clamped == clampToTarget(o, stepped)
          forced  == forceAtEnd(o, elapsed, clamped)
          o1      == IF JsGt(elapsed, Num(0))
                     THEN [o EXCEPT !.current = forced,
                                    !.textContent = format(o.formatter, forced)]
                     ELSE o
      IN  IF JsGe(ToNumber(o1.current), o1.target)
          THEN [o1 EXCEPT !.state = ANIM_COMPLETE]
          ELSE [o1 EXCEPT !.pending = o1.pending + 1]

(* disable() without its removeEventListener *)
disable_keepsListener(o) == [reset(o) EXCEPT !.state = ANIM_DISABLED]

(* disable(), lines 311-316 *)
disable(o) ==
    [reset(o) EXCEPT !.state = ANIM_DISABLED, !.listening = FALSE]

(* enable() that does not register the scroll listener *)
enable_forgetsListener(o, r, clock) ==
    LET o1 == reset(o)
    IN  IF inView(r) THEN animate(o1, NaN, clock) ELSE o1

(* enable(), lines 321-326 *)
enable(o, r, clock) ==
    LET o1 == reset(o)
        o2 == IF inView(r) THEN animate(o1, NaN, clock) ELSE o1
    IN  [o2 EXCEPT !.listening = TRUE]

(* the replay budget test without its !this.limit *)
budgetOpen_zeroIsLimit(o) == o.count < o.limit

(* the replay budget test with <= for < *)
budgetOpen_offByOne(o) == o.limit = 0 \/ o.count <= o.limit

(* line 350: !this.limit || this.count < this.limit *)
budgetOpen(o) == o.limit = 0 \/ o.count < o.limit

(* animateOnScroll() disabling an over-budget counter even while ACTIVE *)
animateOnScroll_disablesActive(o, r, clock) ==
    IF budgetOpen(o)
    THEN IF ~inView(r) THEN reset(o)
         ELSE IF o.state = ANIM_READY THEN animate(o, NaN, clock)
         ELSE o
    ELSE disable(o)

(* animateOnScroll() calling animate() in view whatever the state *)
animateOnScroll_alwaysAnimates(o, r, clock) ==
    IF budgetOpen(o)
    THEN IF ~inView(r) THEN reset(o)
         ELSE animate(o, NaN, clock)
    ELSE IF o.state # ANIM_ACTIVE THEN disable(o)
    ELSE o

(* animateOnScroll(), lines 348-361 *)
animateOnScroll(o, r, clock) ==
    IF budgetOpen(o)
    THEN IF ~inView(r) THEN reset(o)
         ELSE IF o.state = ANIM_READY THEN animate(o, NaN, clock)
         ELSE o
    ELSE IF o.state # ANIM_ACTIVE THEN disable(o)
    ELSE o

(* The constructor, lines 151-255.  attr is element.dataset.counter (or    *)
(* Undefined), opts the options: [hasLimit, limit, hasPrecision,           *)
(* precision], has* telling whether typeof opts.* == 'number'.             *)
(* The result is [threw, o]: whether a TypeError or RangeError left the    *)
(* constructor, and the instance as the constructor left it.               *)
DefaultSeconds == 150
constructor(attr, opts, r, clock) ==
    IF attr = Undefined THEN [threw |-> TRUE, o |-> NewObject]
    ELSE
      LET data == split(attr)
      IN  IF Len(data) < 2 THEN [threw |-> TRUE, o |-> NewObject]
          ELSE
            LET dot0 == indexOf(data[1], ".")
                dot1 == indexOf(data[2], ".")
                start == IF dot0 > -1 THEN parseFloat(data[1]) ELSE parseInt(data[1])
                target == IF dot1 > -1 THEN parseFloat(data[2]) ELSE parseInt(data[2])
                secs == IF At(data, 2) # Undefined THEN parseFloat(At(data, 2))
                        ELSE Num(DefaultSeconds)
                (* 1000 * seconds: hundredths of a second to milliseconds *)
                duration == IF IsNum(secs) THEN Num(10 * secs.v) ELSE NaN
                prec0 == IF dot1 > -1 THEN Len(data[2]) - dot1 - 1 ELSE 0
                increment == IF JsGt(target, Num(2000)) THEN 100
                             ELSE IF JsGt(target, Num(1000)) THEN 10 ELSE 1
                limit == IF opts.hasLimit THEN opts.limit ELSE NewObject.limit
                precision == IF opts.hasPrecision THEN opts.precision ELSE prec0
                o1 == [NewObject EXCEPT !.start = start, !.current = start,
                          !.target = target, !.duration = duration,
                          !.precision = precision, !.increment = increment,
                          !.limit = limit]
            IN  IF FormatterThrows(precision) THEN [threw |-> TRUE, o |-> o1]
                ELSE [threw |-> FALSE,
                      o |-> enable([o1 EXCEPT !.formatter =
                                       FormatOptions(At(data, 3), precision)],
                                   r, clock)]

---------------------------------------------------------------------------
(* The page *)

(* Bounding rectangles of the element: wholly inside the viewport, partly  *)
(* below its lower edge, and not rendered (display: none).                 *)
RectInside == [top |-> 10, left |-> 10, bottom |-> 60, right |-> 60,
               width |-> 50, height |-> 50]
RectPartly == [top |-> 80, left |-> 10, bottom |-> 130, right |-> 60,
               width |-> 50, height |-> 50]
RectHidden == [top |-> 0, left |-> 0, bottom |-> 0, right |-> 0,
               width |-> 0, height |-> 0]
Rects == {RectInside, RectPartly, RectHidden}

NoOpts == [hasLimit |-> FALSE, limit |-> 0, hasPrecision |-> FALSE, precision |-> 0]
Limit(n) == [NoOpts EXCEPT !.hasLimit = TRUE, !.limit = n]
Precision(n) == [NoOpts EXCEPT !.hasPrecision = TRUE, !.precision = n]

(* The elements a counter is constructed on: the data-counter attribute    *)
(* and the options passed with it.                                         *)
Elements ==
    { (* "0:100:1:usd" *)
      [attr |-> <<"0", ":", "1", "0", "0", ":", "1", ":", "u", "s", "d">>, opts |-> Limit(1)],
      (* "0:50" *)
      [attr |-> <<"0", ":", "5", "0">>, opts |-> NoOpts],
      (* "50:100:1" *)
      [attr |-> <<"5", "0", ":", "1", "0", "0", ":", "1">>, opts |-> Limit(2)],
      (* "0:10.54:1" *)
      [attr |-> <<"0", ":", "1", "0", ".", "5", "4", ":", "1">>, opts |-> NoOpts],
      (* "-1:30:.5:%" *)
      [attr |-> <<"-", "1", ":", "3", "0", ":", ".", "5", ":", "%">>, opts |-> Limit(1)],
      (* "a:100" *)
      [attr |-> <<"a", ":", "1", "0", "0">>, opts |-> NoOpts],
      (* "0:a" *)
      [attr |-> <<"0", ":", "a">>, opts |-> Limit(1)],
      (* "0:100:a" *)
      [attr |-> <<"0", ":", "1", "0", "0", ":", "a">>, opts |-> Limit(2)],
      (* "0:5.25" shown with one fraction digit *)
      [attr |-> <<"0", ":", "5", ".", "2", "5">>, opts |-> Precision(1)],
      (* "100:50", a decreasing counter *)
      [attr |-> <<"1", "0", "0", ":", "5", "0">>, opts |-> NoOpts],
      (* "0:100:0" *)
      [attr |-> <<"0", ":", "1", "0", "0", ":", "0">>, opts |-> Limit(2)],
      (* "5": no target segment *)
      [attr |-> <<"5">>, opts |-> NoOpts],
      (* no data-counter attribute *)
      [attr |-> Undefined, opts |-> NoOpts],
      (* "0:100" with a precision Intl.NumberFormat rejects *)
      [attr |-> <<"0", ":", "1", "0", "0">>, opts |-> Precision(-1)] }

(* Bounds of the model *)
FrameMs == 500
MaxSkip == 2
MaxFrames == 5
MaxPending == 2
MaxCount == 3

MaxTime == MaxFrames * FrameMs

VARIABLES
    element,      \* the element and options the counter is constructed with
    rect,         \* node.getBoundingClientRect()
    this,         \* the instance: its fields, node.textContent, its scroll
                  \* listener and its requested frame callbacks (see NewObject)
    phase,        \* "new": not constructed; "live"; "failed": the constructor threw
    now,          \* document.timeline.currentTime, ms
    fresh,        \* the timeline has advanced since the last frame's callbacks ran
    running,      \* callbacks of the frame being run that have not run yet
    op,           \* the last operation
    prev          \* this.state before the last operation

vars == <<element, rect, this, phase, now, fresh, running, op, prev>>

Init ==
    /\ element \in Elements
    /\ rect \in Rects
    /\ this = NewObject
    /\ phase = "new"
    /\ now = 0
    /\ fresh = FALSE
    /\ running = 0
    /\ op = "new"
    /\ prev = ANIM_DISABLED

(* the caps on outstanding frame callbacks and on started runs *)
WithinBounds(o) ==
    /\ o.pending + running <= MaxPending
    /\ o.count <= MaxCount \/ o.count = this.count

(* new AnimatedCounter(element, opts) *)
Construct ==
    /\ phase = "new"
    /\ LET res == constructor(element.attr, element.opts, rect, now)
       IN  /\ this' = res.o
           /\ phase' = IF res.threw THEN "failed" ELSE "live"
    /\ op' = "construct"
    /\ prev' = this.state
    /\ UNCHANGED <<element, rect, now, fresh, running>>

(* The user scrolls: the element's rectangle changes and the document      *)
(* dispatches the scroll event to its listeners.  Scroll events are        *)
(* dispatched before a frame's callbacks are run, never between two of     *)
(* them.                                                                   *)
ScrollEvent(r) ==
    /\ phase = "live"
    /\ running = 0
    /\ rect' = r
    /\ IF this.listening
       THEN /\ WithinBounds(animateOnScroll(this, r, now))
            /\ this' = animateOnScroll(this, r, now)
            /\ op' = "scroll"
       ELSE /\ this' = this
            /\ op' = "scroll-unheard"
    /\ prev' = this.state
    /\ UNCHANGED <<element, phase, now, fresh, running>>

(* Time passes: the next frame, or a later one, begins *)
Tick(k) ==
    /\ phase = "live"
    /\ running = 0
    /\ now + k * FrameMs <= MaxTime
    /\ now' = now + k * FrameMs
    /\ fresh' = TRUE
    /\ op' = "tick"
    /\ prev' = this.state
    /\ UNCHANGED <<element, rect, this, phase, running>>

(* The frame runs its animation frame callbacks: those requested so far;   *)
(* callbacks requested while they run wait for the next frame.             *)
RunFrame ==
    /\ phase = "live"
    /\ running = 0
    /\ fresh
    /\ this.pending > 0
    /\ running' = this.pending
    /\ this' = [this EXCEPT !.pending = 0]
    /\ fresh' = FALSE
    /\ op' = "run-frame"
    /\ prev' = this.state
    /\ UNCHANGED <<element, rect, phase, now>>

(* One callback of the frame: animate(timestamp) *)
FrameCallback ==
    /\ running > 0
    /\ this' = animate(this, Num(now), now)
    /\ running' = running - 1
    /\ op' = "frame"
    /\ prev' = this.state
    /\ UNCHANGED <<element, rect, phase, now, fresh>>

Next ==
    \/ Construct
    \/ \E r \in Rects : ScrollEvent(r)
    \/ \E k \in 1..MaxSkip : Tick(k)
    \/ RunFrame
    \/ FrameCallback

Spec == Init /\ [][Next]_vars

---------------------------------------------------------------------------
(* The page's own script calling the public methods.  Such a call can come *)
(* at any time, also from another animation frame callback, between two    *)
(* callbacks of the counter.                                               *)

CallReset ==
    /\ phase = "live"
    /\ this' = reset(this)
    /\ op' = "reset"
    /\ prev' = this.state
    /\ UNCHANGED <<element, rect, phase, now, fresh, running>>

CallDisable ==
    /\ phase = "live"
    /\ this' = disable(this)
    /\ op' = "disable"
    /\ prev' = this.state
    /\ UNCHANGED <<element, rect, phase, now, fresh, running>>

CallEnable ==
    /\ phase = "live"
    /\ WithinBounds(enable(this, rect, now))
    /\ this' = enable(this, rect, now)
    /\ op' = "enable"
    /\ prev' = this.state
    /\ UNCHANGED <<element, rect, phase, now, fresh, running>>

(* animate() called directly, without a timestamp *)
CallAnimate ==
    /\ phase = "live"
    /\ WithinBounds(animate(this, NaN, now))
    /\ this' = animate(this, NaN, now)
    /\ op' = "animate"
    /\ prev' = this.state
    /\ UNCHANGED <<element, rect, phase, now, fresh, running>>

ApiNext ==
    \/ Construct
    \/ \E r \in Rects : ScrollEvent(r)
    \/ \E k \in 1..MaxSkip : Tick(k)
    \/ RunFrame
    \/ FrameCallback
    \/ CallReset
    \/ CallDisable
    \/ CallEnable
    \/ CallAnimate

ApiSpec == Init /\ [][ApiNext]_vars

---------------------------------------------------------------------------
(* Properties *)

FormattedTarget == format(this.formatter, this.target)

(* the replay budget of animateOnScroll is used up *)
BudgetClosed == this.limit > 0 /\ this.count >= this.limit

(* the last operation called reset(): directly, or from the scroll handler *)
(* (budget open, element not in view)                                      *)
ResetRan ==
    \/ op = "reset"
    \/ op = "scroll" /\ budgetOpen(this) /\ ~inView(rect)

(* C1: reset(), called from any state and with any frame callbacks         *)
(* pending, ends with node.textContent equal to the formatted target,      *)
(* state READY and timestamp 0.                                            *)
C1_ResetRestores ==
    ResetRan =>
        /\ this.textContent = FormattedTarget
        /\ this.state = ANIM_READY
        /\ this.timestamp = 0

(* reset() was called in the middle of a run, a frame callback pending *)
C1_Witness ==
    /\ op = "reset"
    /\ prev = ANIM_ACTIVE
    /\ this.pending + running > 0
    /\ this.count > 0

(* C2: whenever a step takes the counter from ACTIVE to COMPLETE,          *)
(* node.textContent is the formatted target in the state it reaches.       *)
C2_CompletesOnTarget ==
    [][(this.state = ANIM_ACTIVE /\ this'.state = ANIM_COMPLETE)
         => this'.textContent = format(this'.formatter, this'.target)]_vars

(* a run completed by a frame callback before the duration had passed: the *)
(* interpolated value reached the target                                   *)
C2_Witness ==
    /\ op = "frame"
    /\ prev = ANIM_ACTIVE
    /\ this.state = ANIM_COMPLETE
    /\ IsNum(this.duration)
    /\ now - this.timestamp <= this.duration.v
    /\ JsGt(this.target, this.start)

(* C3: while the counter is DISABLED, a scroll event or a frame callback   *)
(* changes neither node.textContent nor the state, so that nothing changes *)
(* the text for as long as only such events follow.                        *)
C3_DisabledIsQuiet ==
    [][(this.state = ANIM_DISABLED /\ op' \in {"scroll", "scroll-unheard", "frame"})
         => (this'.textContent = this.textContent /\ this'.state = ANIM_DISABLED)]_vars

(* a frame callback that was pending when disable() ran has run *)
C3_Witness ==
    /\ phase = "live"
    /\ op = "frame"
    /\ prev = ANIM_DISABLED
    /\ this.state = ANIM_DISABLED

(* C4: with limit > 0, count never exceeds limit, under scroll events and  *)
(* frame callbacks.                                                        *)
C4_CountWithinLimit ==
    this.limit > 0 => this.count <= this.limit

(* the budget of two runs is used up and another scroll event was handled *)
C4_Witness ==
    /\ this.limit = 2
    /\ this.count = 2
    /\ op = "scroll"
    /\ inView(rect)

(* C5: a scroll event handled with limit > 0 and count >= limit leaves the *)
(* counter DISABLED, starting no run, when the state was not ACTIVE, and   *)
(* changes nothing of the counter when it was ACTIVE.                      *)
C5_OverBudgetScroll ==
    [][(op' = "scroll" /\ this.limit > 0 /\ this.count >= this.limit)
         => IF this.state # ANIM_ACTIVE
            THEN /\ this'.state = ANIM_DISABLED
                 /\ this'.count = this.count
                 /\ this'.pending = this.pending
            ELSE this' = this]_vars

(* the element scrolled back into view after its only run completed, and   *)
(* the scroll event disabled the counter                                   *)
C5_Witness ==
    /\ op = "scroll"
    /\ BudgetClosed
    /\ inView(rect)
    /\ prev = ANIM_COMPLETE
    /\ this.state = ANIM_DISABLED

(* C6: a run starts (count is incremented) only in a step that finds the   *)
(* element in view.                                                        *)
C6_RunsStartInView ==
    [][this'.count > this.count => inView(rect')]_vars

(* the longest duration of a run: the default, line 127 *)
DefaultDurationMs == 1500

(* C7: a run ends: a frame callback handled while ACTIVE, later than the   *)
(* longest duration after the run began, does not leave the counter ACTIVE.*)
C7_RunEnds ==
    (op = "frame" /\ prev = ANIM_ACTIVE /\ now - this.timestamp > DefaultDurationMs)
        => this.state # ANIM_ACTIVE

(* C8: a frame callback received in ACTIVE with elapsed >= duration, for   *)
(* numbers start <= target, writes the formatted target and completes.     *)
C8_DoneAtDuration ==
    [][(/\ op' = "frame"
        /\ this.state = ANIM_ACTIVE
        /\ IsNum(this.start) /\ IsNum(this.target) /\ IsNum(this.duration)
        /\ this.target.v >= this.start.v
        /\ now - this.timestamp >= this.duration.v)
         => (/\ this'.textContent = format(this.formatter, this.target)
             /\ this'.state = ANIM_COMPLETE)]_vars

(* C9: right after construction the text is the formatted target and the   *)
(* scroll listener is registered; in view: ACTIVE, count 1, one frame      *)
(* callback pending; otherwise READY, count 0, none pending.               *)
C9_AfterConstruction ==
    (op = "construct" /\ phase = "live") =>
        /\ this.textContent = FormattedTarget
        /\ this.listening
        /\ IF inView(rect)
           THEN this.state = ANIM_ACTIVE /\ this.count = 1 /\ this.pending = 1
           ELSE this.state = ANIM_READY /\ this.count = 0 /\ this.pending = 0

(* a counter constructed on an element in view *)
C9_Witness ==
    /\ op = "construct"
    /\ phase = "live"
    /\ inView(rect)
    /\ this.state = ANIM_ACTIVE

(* the segment is not parseable as a number, the way lines 157 and 159     *)
(* parse it                                                                *)
Unparseable(seg) ==
    IsNaN(IF indexOf(seg, ".") > -1 THEN parseFloat(seg) ELSE parseInt(seg))

(* C10: construction fails, nothing enabled, registered or written, when   *)
(* the start or the target segment is not parseable as a number.           *)
C10_BadNumbersFail ==
    (/\ op = "construct"
     /\ element.attr # Undefined
     /\ Len(split(element.attr)) >= 2
     /\ Unparseable(split(element.attr)[1]) \/ Unparseable(split(element.attr)[2]))
        => (/\ phase = "failed"
            /\ ~this.listening
            /\ this.textContent = OriginalText
            /\ this.state = ANIM_DISABLED)

(* the options are ones Intl.NumberFormat accepts *)
ValidOptions == ~(element.opts.hasPrecision /\ FormatterThrows(element.opts.precision))

(* C11: with the duration segment absent, or present but not parseable as  *)
(* a number, construction succeeds and duration is the default 1500 ms.    *)
C11_DurationDefaults ==
    (/\ op = "construct"
     /\ element.attr # Undefined
     /\ Len(split(element.attr)) >= 2
     /\ ValidOptions
     /\ \/ At(split(element.attr), 2) = Undefined
        \/ IsNaN(parseFloat(At(split(element.attr), 2))))
        => (phase = "live" /\ this.duration = Num(DefaultDurationMs))

(* the frame callbacks of the instance that have been requested and have   *)
(* not run yet                                                             *)
Outstanding == this.pending + running

(* C12: at most one frame callback of the instance is pending, under       *)
(* scroll events and frame callbacks.                                      *)
C12_OneCallback == Outstanding <= 1

(* C13: for a directive with target >= start (and a duration that is a     *)
(* number), start <= current <= target whenever a run is in progress or    *)
(* has completed.                                                          *)
C13_CurrentInRange ==
    (/\ IsNum(this.start) /\ IsNum(this.target) /\ IsNum(this.duration)
     /\ this.target.v >= this.start.v
     /\ this.state \in {ANIM_ACTIVE, ANIM_COMPLETE})
        => (/\ JsGe(ToNumber(this.current), this.start)
            /\ JsGe(this.target, ToNumber(this.current)))


(* C14: within one run, current never decreases from one frame update to   *)
(* the next (for a directive with numeric start, target and duration and   *)
(* target >= start).                                                       *)
C14_CurrentMonotone ==
    [][(/\ op' = "frame"
        /\ IsNum(this.start) /\ IsNum(this.target) /\ IsNum(this.duration)
        /\ this.target.v >= this.start.v
        /\ this.state = ANIM_ACTIVE
        /\ this'.state \in {ANIM_ACTIVE, ANIM_COMPLETE})
           => JsGe(ToNumber(this'.current), ToNumber(this.current))]_vars


C16_CountStepsByOne ==
    [][/\ (this'.count # this.count) =>
             /\ this'.count = this.count + 1
             /\ this'.state = ANIM_ACTIVE
             /\ this.state = ANIM_READY \/ op' \in {"enable", "construct"}
       /\ (this.state = ANIM_READY /\ this'.state = ANIM_ACTIVE) =>
             this'.count = this.count + 1]_vars

(* a second run has started, from READY, on a frame callback or a scroll   *)
(* event                                                                   *)
C16_Witness ==
    /\ op \in {"frame", "scroll"}
    /\ prev = ANIM_READY
    /\ this.state = ANIM_ACTIVE
    /\ this.count = 2


(* C17: animate, called directly or as a frame callback while the state is *)
(* DISABLED or COMPLETE, changes nothing: state, current, count, timestamp *)
(* and the node's text stay, and no frame callback is requested.           *)
C17_AnimateNoOp ==
    [][(/\ op' \in {"frame", "animate"}
        /\ this.state \in {ANIM_DISABLED, ANIM_COMPLETE})
           => this' = this]_vars

(* a frame callback has come back to a counter that disable() stopped in   *)
(* the middle of a run                                                     *)
C17_Witness ==
    /\ op = "frame"
    /\ prev = ANIM_DISABLED
    /\ this.state = ANIM_DISABLED
    /\ this.count >= 1
    /\ ~this.listening


(* C18: a scroll event handled while the replay budget is open, the        *)
(* element is in view and the state is ACTIVE or COMPLETE changes nothing: *)
(* state, current, count, timestamp, the node's text and the pending frame *)
(* callbacks stay as they were.                                            *)
C18_ScrollInViewIdle ==
    [][(/\ op' = "scroll"
        /\ budgetOpen(this)
        /\ inView(rect')
        /\ this.state \in {ANIM_ACTIVE, ANIM_COMPLETE})
           => (this' = this /\ running' = running)]_vars

(* such a scroll event has been handled after a completed run *)
C18_Witness ==
    /\ op = "scroll"
    /\ budgetOpen(this)
    /\ inView(rect)
    /\ prev = ANIM_COMPLETE
    /\ this.state = ANIM_COMPLETE


(* what disable() leaves behind *)
Disabled(o) ==
    /\ o.state = ANIM_DISABLED
    /\ o.textContent = format(o.formatter, o.target)
    /\ o.timestamp = 0
    /\ ~o.listening

(* C19: disable(), called from any state (by the page, or by a scroll      *)
(* event on a closed budget), ends with state DISABLED, the node's text    *)
(* the formatted target, timestamp 0 and the scroll listener removed; the  *)
(* listener stays removed until enable() is called, and scroll events are  *)
(* not delivered meanwhile.                                                *)
C19_DisableStops ==
    [][/\ op' = "disable" => Disabled(this')
       /\ (/\ op' = "scroll" /\ ~budgetOpen(this)
           /\ this.state # ANIM_ACTIVE) => Disabled(this')
       /\ (~this.listening /\ phase = "live" /\ op' # "enable")
             => (/\ ~this'.listening
                 /\ op' # "scroll"
                 /\ op' = "scroll-unheard" => this' = this)]_vars

(* a scroll event has passed by a counter that disable() stopped during a  *)
(* run                                                                     *)
C19_Witness ==
    /\ op = "scroll-unheard"
    /\ Disabled(this)
    /\ this.count >= 1
    /\ running + this.pending >= 1


(* C20: whenever the state is ACTIVE at least one frame callback of the    *)
(* instance is outstanding (requested, or about to run in the current      *)
(* frame).                                                                 *)
C20_ActiveHasCallback == (this.state = ANIM_ACTIVE) => Outstanding >= 1

(* an ACTIVE run that a frame callback has just advanced and rescheduled,  *)
(* after a reset() in the middle of the run                                *)
C20_Witness ==
    /\ op = "frame"
    /\ prev = ANIM_ACTIVE
    /\ this.state = ANIM_ACTIVE
    /\ this.count >= 2
    /\ Outstanding = 1


(* C21: with limit = 0 the constructor leaves the counter READY or ACTIVE, *)
(* and afterwards no scroll event and no frame callback (nor reset(),      *)
(* enable() or a direct animate()) takes it into DISABLED: only a call of  *)
(* disable() does.                                                         *)
C21_NoLimitNeverDisabled ==
    [][/\ (op' = "construct" /\ phase' = "live" /\ this'.limit = 0)
             => this'.state # ANIM_DISABLED
       /\ (/\ phase = "live" /\ this.limit = 0
           /\ this.state # ANIM_DISABLED
           /\ this'.state = ANIM_DISABLED) => op' = "disable"]_vars

(* a scroll event has started the third run of a counter without limit *)
C21_Witness ==
    /\ this.limit = 0
    /\ op = "scroll"
    /\ prev = ANIM_READY
    /\ this.state = ANIM_ACTIVE
    /\ this.count = 3

=============================================================================
